---- MODULE Spec2Model ----
(***************************************************************************)
(* Reminder scheduling and notification engine of Jarvis-Bot:              *)
(* core/scheduler.py (SchedulerManager on top of APScheduler's             *)
(* BackgroundScheduler with a MemoryJobStore) and core/database.py (the    *)
(* reminders table).                                                       *)
(*                                                                         *)
(* Time is counted in minutes ("ticks") of a scaled calendar: an hour has  *)
(* MinutesPerHour minutes, a day HoursPerDay hours, a month MonthDays      *)
(* days and a week seven days.  The scheduler thread is taken to be        *)
(* prompt: the clock does not advance while a job is due and not yet       *)
(* handed to the executor.                                                 *)
(***************************************************************************)
EXTENDS Integers, Sequences, FiniteSets, Bags, TLC

VARIABLES
    now,         \* wall clock, datetime.now()
    reminders,   \* the reminders table: id -> row
    nextId,      \* AUTOINCREMENT counter of the reminders table
    jobs,        \* MemoryJobStore of the BackgroundScheduler
    running,     \* job instances submitted to the ThreadPoolExecutor (a bag)
    cancelling,  \* cancel_reminder calls between their UPDATE and remove_job
    result,      \* what the last create_reminder / cancel_reminder returned
    hist,        \* per reminder id: what has been observed so far
    time_text,   \* the time expression handed to a time parser
    clock,       \* datetime.now() as the time parser reads it
    parsed       \* what the time parser returned

vars ==
    <<now, reminders, nextId, jobs, running, cancelling, result, hist,
      time_text, clock, parsed>>

\* the variables of the time parsers
rvars == <<time_text, clock, parsed>>

---------------------------------------------------------------------------
(* Bounds of the model *)

MaxReminders == 1
MaxTime == 3
MinutesPerHour == 1
HoursPerDay == 2
MonthDays == 3
MaxCallers == 1
CountCap == 2
DailyDays == 3
StoreTime == 1
CleanupSpan == 3

(* Constants of the program *)

max_instances == 3
CleanupHours == 24
RetentionDays == 30

HourTicks == MinutesPerHour
DayTicks == HoursPerDay * MinutesPerHour
\* IntervalTrigger(hours=24): one calendar day
CleanupPeriod == (CleanupHours \div 24) * DayTicks
\* timedelta(days=30)
RetentionTicks == RetentionDays * DayTicks

CleanupJobId == 0

Ids == 1..(MaxReminders + 1)

---------------------------------------------------------------------------
(* The users table: id -> platform.  Users are created by the chat         *)
(* handlers (get_or_create_user) with the platform of the channel.         *)

Users == (1 :> "telegram") @@ (2 :> "web")

UserIds == DOMAIN Users

Titles == {"Pay bills"}

---------------------------------------------------------------------------
(* Repeat patterns are strings; a pattern is modelled as the list of its   *)
(* whitespace-separated words, <<>> standing for None / ''.                *)

Numerals == ("1" :> 1) @@ ("2" :> 2)

\* str.lower()
Lower(tok) ==
    CASE tok = "Daily" -> "daily"
      [] tok = "Every" -> "every"
      [] OTHER -> tok

\* str.rstrip('s')
RStripS(tok) ==
    CASE tok = "minutes" -> "minute"
      [] tok = "hours" -> "hour"
      [] tok = "days" -> "day"
      [] OTHER -> tok

\* pattern_lower.startswith('every')
StartsWithEvery(p) == Len(p) >= 1 /\ p[1] \in {"every", "everyday"}

\* strings that _create_repeat_trigger does not recognise: another word, a
\* count that is no number, no unit, another unit
UnknownPatterns ==
    { <<"yearly">>, <<"every", "x", "minutes">>, <<"every", "2">>,
      <<"every", "2", "weeks">> }

Patterns ==
    { <<>>, <<"daily">>, <<"weekly">>, <<"monthly">>,
      <<"every", "1", "minute">>, <<"every", "2", "hours">> }
        \cup UnknownPatterns

\* truthiness of repeat_pattern
Truthy(pattern) == pattern # <<>>

---------------------------------------------------------------------------
(* Calendar *)

MinuteOf(t) == t % MinutesPerHour
HourOf(t) == (t \div MinutesPerHour) % HoursPerDay
DayIndex(t) == t \div DayTicks
\* datetime.weekday()
WeekdayOf(t) == DayIndex(t) % 7
\* datetime.day
DayOfMonth(t) == (DayIndex(t) % MonthDays) + 1

---------------------------------------------------------------------------
(* APScheduler triggers *)

DateTrigger(run_date) ==
    [kind |-> "date", start |-> run_date, every |-> 0, cron |-> "-"]

CronTrigger(fields, start_date) ==
    [kind |-> "cron", start |-> start_date, every |-> 0, cron |-> fields]

IntervalTrigger(length, start_date) ==
    [kind |-> "interval", start |-> start_date, every |-> length, cron |-> "-"]

\* a cron trigger that looks at the minute only
CronMatches_Hourly(tr, t) == MinuteOf(t) = MinuteOf(tr.start)

\* the cron fields set by _create_repeat_trigger match t
CronMatches(tr, t) ==
    /\ HourOf(t) = HourOf(tr.start)
    /\ MinuteOf(t) = MinuteOf(tr.start)
    /\ (tr.cron = "weekly" => WeekdayOf(t) = WeekdayOf(tr.start))
    /\ (tr.cron = "monthly" => DayOfMonth(t) = DayOfMonth(tr.start))

CronSearch == DayTicks * 7 * MonthDays

FirstCronAtOrAfter(tr, from) ==
    CHOOSE t \in from..(from + CronSearch) :
        /\ CronMatches(tr, t)
        /\ \A u \in from..(t - 1) : ~CronMatches(tr, u)

Max(a, b) == IF a >= b THEN a ELSE b

\* trigger.get_next_fire_time(previous_fire_time, now); an optional time is
\* a set with at most one element, {} standing for None
NextFireTime(tr, previous, t) ==
    CASE tr.kind = "date" ->
            IF previous = {} THEN {tr.start} ELSE {}
      [] tr.kind = "interval" ->
            IF previous # {} THEN {p + tr.every : p \in previous}
            ELSE IF tr.start > t THEN {tr.start}
            ELSE {tr.start + ((t - tr.start + tr.every - 1) \div tr.every) * tr.every}
      [] tr.kind = "cron" ->
            IF previous # {} THEN {FirstCronAtOrAfter(tr, p + 1) : p \in previous}
            ELSE {FirstCronAtOrAfter(tr, Max(t, tr.start))}

\* a parser that takes any third word for a unit of one minute
CreateRepeatTrigger_AnyUnit(repeat_pattern, start_time) ==
    LET p == [i \in DOMAIN repeat_pattern |-> Lower(repeat_pattern[i])] IN
    IF p = <<"daily">> THEN CronTrigger("daily", start_time)
    ELSE IF p = <<"weekly">> THEN CronTrigger("weekly", start_time)
    ELSE IF p = <<"monthly">> THEN CronTrigger("monthly", start_time)
    ELSE IF StartsWithEvery(p) /\ Len(p) >= 3 /\ p[2] \in DOMAIN Numerals
    THEN IntervalTrigger(Numerals[p[2]], start_time)
    ELSE DateTrigger(start_time)

\* SchedulerManager._create_repeat_trigger
CreateRepeatTrigger(repeat_pattern, start_time) ==
    LET p == [i \in DOMAIN repeat_pattern |-> Lower(repeat_pattern[i])] IN
    IF p = <<"daily">> THEN CronTrigger("daily", start_time)
    ELSE IF p = <<"weekly">> THEN CronTrigger("weekly", start_time)
    ELSE IF p = <<"monthly">> THEN CronTrigger("monthly", start_time)
    ELSE IF StartsWithEvery(p) /\ Len(p) >= 3
    THEN IF p[2] \notin DOMAIN Numerals
         THEN DateTrigger(start_time)          \* int() raises, caught
         ELSE LET interval == Numerals[p[2]]
                  unit == RStripS(p[3])
              IN  CASE unit = "minute" -> IntervalTrigger(interval, start_time)
                    [] unit = "hour" -> IntervalTrigger(interval * HourTicks, start_time)
                    [] unit = "day" -> IntervalTrigger(interval * DayTicks, start_time)
                    [] OTHER -> DateTrigger(start_time)
    ELSE DateTrigger(start_time)

\* the trigger create_reminder builds
TriggerFor(repeat_pattern, reminder_time) ==
    IF Truthy(repeat_pattern)
    THEN CreateRepeatTrigger(repeat_pattern, reminder_time)
    ELSE DateTrigger(reminder_time)

---------------------------------------------------------------------------
(* The job store *)

Job(id, tr, t) ==
    [id |-> id, trigger |-> tr,
     next_run_time |-> CHOOSE n \in NextFireTime(tr, {}, t) : TRUE]

JobsOf(id) == {j \in jobs : j.id = id}

\* scheduler.add_job(..., id=job_id, replace_existing=True)
AddJob(js, job) == {j \in js : j.id # job.id} \cup {job}

\* scheduler.remove_job(job_id), JobLookupError swallowed by the callers
RemoveJob(js, id) == {j \in js : j.id # id}

\* jobstore.get_due_jobs(now)
DueJobs == {j \in jobs : j.next_run_time <= now}

\* run_job: a run time later than misfire_grace_time (1 s) is skipped
OnTime(run_time) == run_time >= now

\* BaseScheduler._process_jobs: the job store after job j has been handed over
Rescheduled(js, j) ==
    LET next == NextFireTime(j.trigger, {j.next_run_time}, now) IN
    IF next = {} THEN RemoveJob(js, j.id)
    ELSE (js \ {j}) \cup {[j EXCEPT !.next_run_time = n] : n \in next}

\* the instances of job id that the executor is running: executor._instances[job.id]
InstancesOf(id) == {i \in BagToSet(running) : i.rid = id}

RECURSIVE Copies(_)
Copies(S) ==
    IF S = {} THEN 0
    ELSE LET i == CHOOSE x \in S : TRUE IN CopiesIn(i, running) + Copies(S \ {i})

InstanceCount(id) == Copies(InstancesOf(id))

Started(i) == running (+) SetToBag({i})

Ended(i) == running (-) SetToBag({i})

---------------------------------------------------------------------------
(* The reminders table *)

\* an INSERT that loses the repeat pattern
Row_NoPattern(user_id, title, reminder_time, repeat_pattern) ==
    [user_id |-> user_id, title |-> title, description |-> "",
     reminder_time |-> reminder_time, repeat_pattern |-> <<>>,
     is_active |-> TRUE, is_completed |-> FALSE, created_at |-> now]

\* the row an INSERT makes: is_active, is_completed and created_at take
\* their column defaults
Row(user_id, title, reminder_time, repeat_pattern) ==
    [user_id |-> user_id, title |-> title, description |-> "",
     reminder_time |-> reminder_time, repeat_pattern |-> repeat_pattern,
     is_active |-> TRUE, is_completed |-> FALSE, created_at |-> now]

\* a complete_reminder whose UPDATE matches no row
CompleteReminder_NoUpdate(rs, id) == rs

\* DatabaseManager.complete_reminder
CompleteReminder(rs, id) ==
    [r \in DOMAIN rs |-> IF r = id THEN [rs[r] EXCEPT !.is_completed = TRUE] ELSE rs[r]]

\* an UPDATE that flips is_active
Deactivate_Toggle(rs, id) ==
    [r \in DOMAIN rs |-> IF r = id THEN [rs[r] EXCEPT !.is_active = ~@] ELSE rs[r]]

\* an UPDATE without its WHERE clause
Deactivate_All(rs, id) ==
    [r \in DOMAIN rs |-> [rs[r] EXCEPT !.is_active = FALSE]]

\* UPDATE reminders SET is_active = 0 WHERE id = ?
Deactivate(rs, id) ==
    [r \in DOMAIN rs |-> IF r = id THEN [rs[r] EXCEPT !.is_active = FALSE] ELSE rs[r]]

\* the SELECT without its "AND r.is_active = 1"
SelectActive_AnyRow(id) ==
    IF id \in DOMAIN reminders /\ reminders[id].user_id \in UserIds
    THEN {reminders[id]}
    ELSE {}

\* the SELECT of _execute_reminder: the row joined with its user, if active
SelectActive(id) ==
    IF id \in DOMAIN reminders /\ reminders[id].is_active
       /\ reminders[id].user_id \in UserIds
    THEN {reminders[id]}
    ELSE {}

\* DELETE FROM reminders WHERE is_completed = 1 AND created_at < cutoff
Expired(row) == row.is_completed /\ row.created_at < now - RetentionTicks

CleanupCompleted(rs) == [r \in {x \in DOMAIN rs : ~Expired(rs[x])} |-> rs[r]]

\* DatabaseManager.get_pending_reminders
GetPendingReminders ==
    {r \in DOMAIN reminders :
        /\ reminders[r].is_active
        /\ ~reminders[r].is_completed
        /\ reminders[r].reminder_time <= now
        /\ reminders[r].user_id \in UserIds}

\* SchedulerManager.get_user_reminders (the ids it lists)
SchedulerUserReminders(user_id) ==
    {r \in DOMAIN reminders :
        reminders[r].user_id = user_id /\ reminders[r].is_active}

\* DatabaseManager.get_user_reminders(user_id, active_only)
DbUserReminders(user_id, active_only) ==
    {r \in DOMAIN reminders :
        /\ reminders[r].user_id = user_id
        /\ (active_only => reminders[r].is_active /\ ~reminders[r].is_completed)}

---------------------------------------------------------------------------
(* Observations *)

NoHist ==
    [fired |-> 0, dispatched |-> 0, sends |-> 0, failed |-> FALSE,
     cancel |-> "no", lateSends |-> 0, lateStarts |-> FALSE,
     completed_at |-> {}]

\* cancel_reminder(id) has returned, having found the row at its UPDATE
Cancelled(id) == hist[id].cancel = "yes"

\* counters saturate at CountCap
Inc(n) == IF n < CountCap THEN n + 1 ELSE n

---------------------------------------------------------------------------
(* Datetime strings.  A string is modelled by what datetime.fromisoformat  *)
(* makes of it: an ISO string (with 'T' or a blank between date and time)  *)
(* denotes a moment, any other text raises ValueError.                     *)

NoTimeString == [kind |-> "none", sep |-> "-", t |-> 0]

IsoString(sep, t) == [kind |-> "iso", sep |-> sep, t |-> t]

OtherText == [kind |-> "text", sep |-> "-", t |-> 0]

\* datetime.isoformat()
IsoFormat(t) == IsoString("T", t)

\* datetime.fromisoformat(), {} standing for ValueError
FromIsoFormat(str) == IF str.kind = "iso" THEN {str.t} ELSE {}

---------------------------------------------------------------------------
(* Return values of create_reminder and cancel_reminder *)

NoResult ==
    [op |-> "none", success |-> FALSE, error |-> "-", existed |-> FALSE,
     reminder_id |-> {}, scheduled_time |-> NoTimeString, listing |-> <<>>]

Returned(op, existed) ==
    [NoResult EXCEPT !.op = op, !.success = TRUE, !.existed = existed]

\* {'success': False, 'error': error}
Failed(op, error) == [NoResult EXCEPT !.op = op, !.error = error]

---------------------------------------------------------------------------
(* Time expressions and the parsers that read them:                        *)
(* JarvisAssistant._parse_time_expression, and the to_datetime helper of   *)
(* the WhatsApp and Telegram message handlers.  For the parsers time is    *)
(* counted in real minutes since midnight of day 0, and a moment also says *)
(* whether it has seconds or microseconds beyond the full minute.          *)

MinutesInHour == 60
HoursInDay == 24
Noon == 12

MinutesInDay == HoursInDay * MinutesInHour

Moment(day, hour, minute, frac) ==
    [min |-> (day * HoursInDay + hour) * MinutesInHour + minute, frac |-> frac]

\* a < b
Before(a, b) == a.min < b.min \/ (a.min = b.min /\ ~a.frac /\ b.frac)

\* a + timedelta(minutes=n)
Plus(a, n) == [a EXCEPT !.min = @ + n]

\* a.replace(hour=hour, minute=minute, second=0, microsecond=0), {} standing
\* for the ValueError of an hour or minute out of range
Replace(a, hour, minute) ==
    IF hour < HoursInDay /\ minute < MinutesInHour
    THEN {[min |-> (a.min \div MinutesInDay) * MinutesInDay
                      + hour * MinutesInHour + minute,
           frac |-> FALSE]}
    ELSE {}

(* A time expression is modelled by what the regular expressions of the    *)
(* parsers find in it: a day word, a clock time with or without ':MM' and  *)
(* with or without am/pm, a 'YYYY-MM-DD' date, an 'in N unit' phrase.      *)

NoExpression ==
    [blank |-> TRUE, qualifier |-> "-", clock |-> "-", hour |-> 0, minute |-> 0,
     ampm |-> "-", date |-> {}, unit |-> "-", amount |-> 0]

\* '2:30pm', 'today at 2:30 pm', 'tomorrow at 14:30'
ClockText(qualifier, hour, minute, ampm) ==
    [NoExpression EXCEPT !.blank = FALSE, !.qualifier = qualifier, !.clock = "h:mm",
                         !.hour = hour, !.minute = minute, !.ampm = ampm]

\* '3pm', 'tomorrow at 9am'
HourText(qualifier, hour, ampm) ==
    [NoExpression EXCEPT !.blank = FALSE, !.qualifier = qualifier, !.clock = "h",
                         !.hour = hour, !.ampm = ampm]

\* 'today', 'tomorrow'
DayText(qualifier) == [NoExpression EXCEPT !.blank = FALSE, !.qualifier = qualifier]

\* 'YYYY-MM-DD HH:MM'
DateText(day, hour, minute) ==
    [NoExpression EXCEPT !.blank = FALSE, !.clock = "h:mm", !.hour = hour,
                         !.minute = minute, !.date = {day}]

\* 'in 45 minutes'
RelativeText(amount, unit) ==
    [NoExpression EXCEPT !.blank = FALSE, !.unit = unit, !.amount = amount]

\* 'next friday'
Gibberish == [NoExpression EXCEPT !.blank = FALSE]

\* re.search(r'(\d{1,2}(?::\d{2})?\s*(?:am|pm))', time_text)
TimeMatch(e) == e.clock # "-" /\ e.ampm # "-"

\* datetime.strptime(time_str, '%I:%M%p') or '%I%p': hour and minute of the
\* day, {} standing for ValueError
Strptime(e) ==
    IF e.hour >= 1 /\ e.hour <= Noon /\ e.minute < MinutesInHour
    THEN {[hour |-> (e.hour % Noon) + (IF e.ampm = "pm" THEN Noon ELSE 0),
           minute |-> e.minute]}
    ELSE {}

\* a roll-over that leaves a target equal to now where it is
RollForward_Strict(target, clk) ==
    IF Before(target, clk) THEN Plus(target, MinutesInDay) ELSE target

\* if target_time <= now: target_time += timedelta(days=1)
RollForward(target, clk) ==
    IF ~Before(clk, target) THEN Plus(target, MinutesInDay) ELSE target

\* 'in N minutes|hours|days', else the default of one hour from now
RelativeOrDefault(e, clk) ==
    CASE e.unit = "minute" -> Plus(clk, e.amount)
      [] e.unit = "hour" -> Plus(clk, e.amount * MinutesInHour)
      [] e.unit = "day" -> Plus(clk, e.amount * MinutesInDay)
      [] OTHER -> Plus(clk, MinutesInHour)

\* the part of _parse_time_expression after the day words
SpecificTime(e, clk) ==
    IF TimeMatch(e) /\ Strptime(e) # {}
    THEN {RollForward(t, clk) :
            t \in UNION {Replace(clk, p.hour, p.minute) : p \in Strptime(e)}}
    ELSE {RelativeOrDefault(e, clk)}

\* JarvisAssistant._parse_time_expression(time_text) read at moment clk;
\* the result is a set, {} standing for None
ParseTimeExpression(e, clk) ==
    IF e.blank THEN {}
    ELSE IF e.qualifier = "today" /\ ~TimeMatch(e)
    THEN {Plus(clk, MinutesInHour)}
    ELSE IF e.qualifier = "today" /\ Strptime(e) # {}
    THEN UNION {Replace(clk, p.hour, p.minute) : p \in Strptime(e)}
    ELSE IF e.qualifier = "tomorrow" /\ ~TimeMatch(e)
    THEN Replace(Plus(clk, MinutesInDay), 9, 0)
    ELSE IF e.qualifier = "tomorrow" /\ Strptime(e) # {}
    THEN UNION {Replace(Plus(clk, MinutesInDay), p.hour, p.minute) : p \in Strptime(e)}
    ELSE SpecificTime(e, clk)

\* m1, m1b, m2, m3 of the message handlers: they take a clock time with
\* ':MM' only, after a day word, alone, or after a date
TimeTuple(e) == IF ~e.blank /\ e.clock = "h:mm" THEN {e} ELSE {}

\* to_datetime: ampm = 'am' if 'am' in hm or 'pm' in hm else None
ChatHour(e) ==
    LET ampm == IF e.ampm \in {"am", "pm"} THEN "am" ELSE "-" IN
    IF ampm = "pm" /\ e.hour < Noon THEN e.hour + Noon
    ELSE IF ampm = "am" /\ e.hour = Noon THEN 0
    ELSE e.hour

\* to_datetime(pair) read at moment clk, {} standing for an exception
ToDatetime(e, clk) ==
    IF e.qualifier \in {"today", "tomorrow"}
    THEN Replace(IF e.qualifier = "tomorrow" THEN Plus(clk, MinutesInDay) ELSE clk,
                 ChatHour(e), e.minute)
    ELSE IF e.date = {}
    THEN {IF Before(dt, clk) THEN Plus(dt, MinutesInDay) ELSE dt :
            dt \in Replace(clk, ChatHour(e), e.minute)}
    ELSE {Moment(d, e.hour, e.minute, FALSE) :
            d \in {x \in e.date : e.hour < HoursInDay /\ e.minute < MinutesInHour}}

NotParsed == [by |-> "-", value |-> {}]

\* no time expression has been parsed
NothingParsed ==
    /\ time_text = NoExpression
    /\ clock = Moment(0, 0, 0, FALSE)
    /\ parsed = NotParsed

---------------------------------------------------------------------------
(* SchedulerManager.__init__ and start(): an empty job store plus the      *)
(* periodic cleanup job.                                                   *)
StartedJobs ==
    {Job(CleanupJobId, IntervalTrigger(CleanupPeriod, now + CleanupPeriod), now)}

Init ==
    /\ now = 0
    /\ reminders = <<>>
    /\ nextId = 1
    /\ jobs = StartedJobs
    /\ running = EmptyBag
    /\ cancelling = {}
    /\ result = NoResult
    /\ hist = [id \in Ids |-> NoHist]
    /\ NothingParsed

---------------------------------------------------------------------------
(* SchedulerManager.create_reminder: validation, the INSERT, add_job.  An  *)
(* absent user_id is the empty set, an absent title the empty string.      *)

CreateTimes == {t \in {now - 1, now, now + 1} : t >= 0 /\ t <= MaxTime}

UserArgs == {{}} \cup {{u} : u \in UserIds}

TitleArgs == {""} \cup Titles

Descriptions == {"Due today"}

TimeArgs ==
    {NoTimeString, OtherText}
        \cup {IsoString(sep, t) : sep \in {"T", " "}, t \in CreateTimes}

\* a check that lets an empty title through
MissingFields_NoTitle(user_id, title, reminder_time_str) ==
    user_id = {} \/ reminder_time_str.kind = "none"

\* not all([user_id, title, reminder_time_str])
MissingFields(user_id, title, reminder_time_str) ==
    user_id = {} \/ title = "" \/ reminder_time_str.kind = "none"

\* a create that stores nothing when the same content is already stored
DbCreateReminder_Dedup(rs, id, row) ==
    IF \E r \in DOMAIN rs : [rs[r] EXCEPT !.created_at = 0] = [row EXCEPT !.created_at = 0]
    THEN rs
    ELSE rs @@ (id :> row)

\* DatabaseManager.create_reminder: INSERT INTO reminders
DbCreateReminder(rs, id, row) == rs @@ (id :> row)

\* the whole handler
CreateReminderCall(user_id, title, description, reminder_time_str, repeat_pattern) ==
    /\ IF MissingFields(user_id, title, reminder_time_str)
       THEN /\ result' = Failed("create", "Missing required fields")
            /\ UNCHANGED <<reminders, nextId, jobs>>
       ELSE IF FromIsoFormat(reminder_time_str) = {}
       THEN /\ result' = Failed("create", "Invalid datetime format")
            /\ UNCHANGED <<reminders, nextId, jobs>>
       ELSE LET reminder_time == CHOOSE t \in FromIsoFormat(reminder_time_str) : TRUE
                owner == CHOOSE u \in user_id : TRUE
                row == [Row(owner, title, reminder_time, repeat_pattern)
                            EXCEPT !.description = description]
            IN  /\ reminders' = DbCreateReminder(reminders, nextId, row)
                /\ nextId' = nextId + 1
                /\ jobs' = AddJob(jobs, Job(nextId, TriggerFor(repeat_pattern, reminder_time), now))
                /\ result' = [Returned("create", FALSE) EXCEPT
                                  !.reminder_id = {nextId},
                                  !.scheduled_time = IsoFormat(reminder_time)]
    /\ UNCHANGED <<now, running, cancelling, hist>>
    /\ UNCHANGED rvars

CreateReminder(user_id, title, description, reminder_time_str, repeat_pattern) ==
    /\ nextId <= MaxReminders
    /\ CreateReminderCall(user_id, title, description, reminder_time_str, repeat_pattern)

---------------------------------------------------------------------------
(* The scheduler thread: BaseScheduler._process_jobs for one due job.  The *)
(* job is handed to the executor unless max_instances of it are running,   *)
(* and is then rescheduled, or removed when its trigger has run out.  A    *)
(* run time missed by more than the grace time is not executed.            *)

NewInstance(id) ==
    [rid |-> id, pc |-> "start", repeat |-> <<>>, platform |-> "-"]

\* an executor without the max_instances check
Submitted_NoCap(j) == OnTime(j.next_run_time)

\* executor.submit_job accepts the run, and run_job does not skip it as missed
Submitted(j) ==
    InstanceCount(j.id) < max_instances /\ OnTime(j.next_run_time)

ProcessJob(j) ==
    /\ j \in DueJobs /\ j.id # CleanupJobId
    /\ jobs' = Rescheduled(jobs, j)
    /\ running' = IF Submitted(j) THEN Started(NewInstance(j.id)) ELSE running
    /\ hist' = IF Submitted(j) THEN [hist EXCEPT ![j.id].fired = Inc(@)] ELSE hist
    /\ UNCHANGED <<now, reminders, nextId, cancelling, result>>
    /\ UNCHANGED rvars

\* the cleanup job comes due: _cleanup_completed_reminders is one DELETE
\* statement, run here together with the hand-over of the job
ProcessCleanupJob(j) ==
    /\ j \in DueJobs /\ j.id = CleanupJobId
    /\ jobs' = Rescheduled(jobs, j)
    /\ reminders' = CleanupCompleted(reminders)
    /\ UNCHANGED <<now, nextId, running, cancelling, result, hist>>
    /\ UNCHANGED rvars

---------------------------------------------------------------------------
(* A worker thread running SchedulerManager._execute_reminder, one         *)
(* statement that touches shared state at a time.                          *)

Advance(i, pc) == Ended(i) (+) SetToBag({[i EXCEPT !.pc = pc]})

\* lines 190-206: read the reminder, return when it is missing or inactive
ExecSelect(i) ==
    /\ BagIn(i, running) /\ i.pc = "start"
    /\ IF SelectActive(i.rid) = {}
       THEN /\ running' = Ended(i)
            /\ UNCHANGED hist
       ELSE /\ running' = Ended(i) (+) SetToBag(
                  {[i EXCEPT !.pc = "send",
                             !.repeat = reminders[i.rid].repeat_pattern,
                             !.platform = Users[reminders[i.rid].user_id]]})
            /\ hist' = IF Cancelled(i.rid)
                       THEN [hist EXCEPT ![i.rid].lateStarts = TRUE]
                       ELSE hist
    /\ UNCHANGED <<now, reminders, nextId, jobs, cancelling, result>>
    /\ UNCHANGED rvars

SendOutcomes == {"ok", "http_error", "raised", "no_credentials"}

\* _send_reminder_notification: is the platform API called at all
Attempted(platform, outcome) ==
    platform \in {"telegram", "whatsapp"} /\ outcome # "no_credentials"

\* complete_reminder called for repeating reminders too
AfterSend_AlwaysComplete(i, outcome) == Advance(i, "complete")

\* a failed send is tried again
AfterSend_Retry(i, outcome) ==
    IF outcome \in {"http_error", "raised"} THEN running
    ELSE IF ~Truthy(i.repeat) THEN Advance(i, "complete") ELSE Ended(i)

\* an exception of one send takes the other running dispatches down with it
AfterSend_Abort(i, outcome) ==
    IF outcome = "raised" THEN EmptyBag
    ELSE IF ~Truthy(i.repeat) THEN Advance(i, "complete") ELSE Ended(i)

\* what follows the notification, whatever came of the send: only a
\* reminder without a repeat pattern goes on to complete_reminder
AfterSend(i, outcome) ==
    IF ~Truthy(i.repeat) THEN Advance(i, "complete") ELSE Ended(i)

\* lines 208-209 and _send_reminder_notification: every failure is caught
ExecSend(i, outcome) ==
    /\ BagIn(i, running) /\ i.pc = "send"
    /\ running' = AfterSend(i, outcome)
    /\ hist' = [hist EXCEPT ![i.rid] =
            [@ EXCEPT !.dispatched = Inc(@),
                      !.sends = IF Attempted(i.platform, outcome) THEN Inc(@) ELSE @,
                      !.failed = @ \/ (Attempted(i.platform, outcome)
                                        /\ outcome \in {"http_error", "raised"}),
                      !.lateSends = IF Attempted(i.platform, outcome)
                                       /\ Cancelled(i.rid)
                                    THEN @ + 1 ELSE @]]
    /\ UNCHANGED <<now, reminders, nextId, jobs, cancelling, result>>
    /\ UNCHANGED rvars

\* lines 211-218: complete_reminder, then remove_job (the job of a date
\* trigger is gone by then; JobLookupError is swallowed)
ExecComplete(i) ==
    /\ BagIn(i, running) /\ i.pc = "complete"
    /\ reminders' = CompleteReminder(reminders, i.rid)
    /\ jobs' = RemoveJob(jobs, i.rid)
    /\ running' = Ended(i)
    /\ hist' = [hist EXCEPT ![i.rid].completed_at = IF @ = {} THEN {now} ELSE @]
    /\ UNCHANGED <<now, nextId, cancelling, result>>
    /\ UNCHANGED rvars

---------------------------------------------------------------------------
(* SchedulerManager.cancel_reminder on a caller's thread: the UPDATE, then *)
(* remove_job and the return.                                              *)

\* the ids a caller passes: those of stored reminders, and one that is not
\* stored (the id the table has not handed out yet)
CancelIds == DOMAIN reminders \cup {nextId}

CancelUpdate(id) ==
    /\ Cardinality(cancelling) < MaxCallers
    /\ reminders' = Deactivate(reminders, id)
    /\ cancelling' = cancelling \cup {[id |-> id, existed |-> id \in DOMAIN reminders]}
    /\ UNCHANGED <<now, nextId, jobs, running, result, hist>>
    /\ UNCHANGED rvars

\* a cancel that leaves the job in the job store
CancelRemoveJob_KeepJob(c) ==
    /\ c \in cancelling
    /\ cancelling' = cancelling \ {c}
    /\ result' = Returned("cancel", c.existed)
    /\ hist' = [hist EXCEPT ![c.id].cancel =
                    IF c.existed THEN "yes" ELSE IF @ = "no" THEN "missed" ELSE @]
    /\ UNCHANGED <<now, reminders, nextId, jobs, running>>
    /\ UNCHANGED rvars

CancelRemoveJob(c) ==
    /\ c \in cancelling
    /\ jobs' = RemoveJob(jobs, c.id)
    /\ cancelling' = cancelling \ {c}
    /\ result' = Returned("cancel", c.existed)
    /\ hist' = [hist EXCEPT ![c.id].cancel =
                    IF c.existed THEN "yes" ELSE IF @ = "no" THEN "missed" ELSE @]
    /\ UNCHANGED <<now, reminders, nextId, running>>
    /\ UNCHANGED rvars

---------------------------------------------------------------------------
(* The process is stopped and started again: the job store and the         *)
(* threads are gone, the database is kept; __init__ and start() run.       *)

Restart ==
    /\ jobs' = StartedJobs
    /\ running' = EmptyBag
    /\ cancelling' = {}
    /\ result' = NoResult
    /\ UNCHANGED <<now, reminders, nextId, hist>>
    /\ UNCHANGED rvars

\* time passes, once the scheduler has handed over every due job
ClockStep ==
    /\ DueJobs = {}
    /\ now' = now + 1
    /\ UNCHANGED <<reminders, nextId, jobs, running, cancelling, result, hist>>
    /\ UNCHANGED rvars

Tick == now < MaxTime /\ ClockStep

Next ==
    \/ \E u \in UserArgs, ti \in TitleArgs, d \in Descriptions, t \in TimeArgs,
          p \in Patterns :
            CreateReminder(u, ti, d, t, p)
    \/ \E j \in jobs : ProcessJob(j)
    \/ \E j \in jobs : ProcessCleanupJob(j)
    \/ \E i \in BagToSet(running) : ExecSelect(i)
    \/ \E i \in BagToSet(running), o \in SendOutcomes : ExecSend(i, o)
    \/ \E i \in BagToSet(running) : ExecComplete(i)
    \/ \E id \in CancelIds : CancelUpdate(id)
    \/ \E c \in cancelling : CancelRemoveJob(c)
    \/ Tick

Spec == Init /\ [][Next]_vars

NextWithRestart == Next \/ Restart

SpecRestart == Init /\ [][NextWithRestart]_vars

---------------------------------------------------------------------------
(* Two reminders that come due together: the state after two               *)
(* create_reminder calls at time 0 for time 0, and from there only the     *)
(* scheduler and the worker threads run.                                   *)

PairPatterns == { <<>>, <<"every", "1", "minute">> }

PairIds == {1, 2}

InitPair ==
    \E u1 \in UserIds, u2 \in UserIds, p1 \in PairPatterns, p2 \in PairPatterns :
        /\ now = 0
        /\ reminders = <<[Row(u1, "Pay bills", 0, p1) EXCEPT !.created_at = 0],
                         [Row(u2, "Pay bills", 0, p2) EXCEPT !.created_at = 0]>>
        /\ nextId = 3
        /\ jobs = AddJob(AddJob(StartedJobs, Job(1, TriggerFor(p1, 0), 0)),
                         Job(2, TriggerFor(p2, 0), 0))
        /\ running = EmptyBag
        /\ cancelling = {}
        /\ result = Returned("create", FALSE)
        /\ hist = [id \in PairIds |-> NoHist]
        /\ NothingParsed

NextPair ==
    \/ \E j \in jobs : ProcessJob(j)
    \/ \E j \in jobs : ProcessCleanupJob(j)
    \/ \E i \in BagToSet(running) : ExecSelect(i)
    \/ \E i \in BagToSet(running), o \in SendOutcomes : ExecSend(i, o)
    \/ \E i \in BagToSet(running) : ExecComplete(i)
    \/ Tick

SpecPair == InitPair /\ [][NextPair]_vars

---------------------------------------------------------------------------
(* Creation seen closely: up to two create_reminder calls, valid or not,   *)
(* with the scheduler and the worker threads running; nobody cancels and   *)
(* every send goes through.                                                *)

TwinPatterns == { <<>>, <<"daily">> }

NextCreate ==
    \/ \E u \in UserArgs, ti \in TitleArgs, d \in Descriptions, t \in TimeArgs,
          p \in TwinPatterns :
            nextId \in Ids /\ CreateReminderCall(u, ti, d, t, p)
    \/ \E j \in jobs : ProcessJob(j)
    \/ \E j \in jobs : ProcessCleanupJob(j)
    \/ \E i \in BagToSet(running) : ExecSelect(i)
    \/ \E i \in BagToSet(running) : ExecSend(i, "ok")
    \/ \E i \in BagToSet(running) : ExecComplete(i)
    \/ Tick

SpecCreate == Init /\ [][NextCreate]_vars

---------------------------------------------------------------------------
(* One daily reminder followed over several days: it is created at some    *)
(* moment of the first day, for a target time before, at or after that     *)
(* moment, and from then on only the scheduler and the workers run.        *)

DailyTimes == {t \in {now - 1, now, now + 1, now + DayTicks} : t >= 0}

DailyTick == now < DailyDays * DayTicks /\ ClockStep

NextDaily ==
    \/ \E u \in UserIds, ti \in Titles, d \in Descriptions, t \in DailyTimes :
            /\ nextId = 1 /\ now < DayTicks
            /\ CreateReminderCall({u}, ti, d, IsoFormat(t), <<"daily">>)
    \/ \E j \in jobs : ProcessJob(j)
    \/ \E j \in jobs : ProcessCleanupJob(j)
    \/ \E i \in BagToSet(running) : ExecSelect(i)
    \/ \E i \in BagToSet(running), o \in SendOutcomes : ExecSend(i, o)
    \/ DailyTick

SpecDaily == Init /\ [][NextDaily]_vars

---------------------------------------------------------------------------
(* The time parsers on their own: the clock reads some moment of day 1 and *)
(* a parser is handed some expression.                                     *)

Clocks == {Moment(1, h, m, f) : h \in 0..(HoursInDay - 1), m \in {0, 30}, f \in BOOLEAN}

ClockTexts ==
    {ClockText(q, h, m, ap) :
        q \in {"-", "today", "tomorrow"}, h \in 1..Noon, m \in {0, 30}, ap \in {"am", "pm"}}
      \cup {ClockText(q, h, 30, "-") : q \in {"-", "today"}, h \in {9, 14}}

Expressions ==
    ClockTexts
      \cup {HourText(q, h, ap) :
                q \in {"-", "today", "tomorrow"}, h \in {3, Noon}, ap \in {"am", "pm"}}
      \cup {DayText("today"), DayText("tomorrow")}
      \cup {DateText(d, h, 0) : d \in 0..2, h \in {10, 16}}
      \cup {RelativeText(45, "minute"), RelativeText(2, "hour"), RelativeText(1, "day")}
      \cup {Gibberish, NoExpression}

\* _parse_natural_reminder hands the text to _parse_time_expression
ParseTime(e) ==
    /\ time_text' = e
    /\ parsed' = [by |-> "assistant", value |-> ParseTimeExpression(e, clock)]
    /\ UNCHANGED <<now, reminders, nextId, jobs, running, cancelling, result, hist, clock>>

\* a message handler matches the text and hands the pair to to_datetime
ChatParse(e) ==
    /\ TimeTuple(e) # {}
    /\ time_text' = e
    /\ parsed' = [by |-> "chat", value |-> UNION {ToDatetime(pair, clock) : pair \in TimeTuple(e)}]
    /\ UNCHANGED <<now, reminders, nextId, jobs, running, cancelling, result, hist, clock>>

InitParse ==
    /\ now = 0
    /\ reminders = <<>>
    /\ nextId = 1
    /\ jobs = StartedJobs
    /\ running = EmptyBag
    /\ cancelling = {}
    /\ result = NoResult
    /\ hist = [id \in Ids |-> NoHist]
    /\ time_text = NoExpression
    /\ clock \in Clocks
    /\ parsed = NotParsed

NextParse ==
    \/ \E e \in Expressions : ParseTime(e)
    \/ \E e \in Expressions : ChatParse(e)

SpecParse == InitParse /\ [][NextParse]_vars

---------------------------------------------------------------------------
(* The cleanup seen a month on: the process has been up for RetentionDays  *)
(* days, the cleanup job is due, and one reminder is stored that was       *)
(* created at the start or a moment ago and is due now or in a minute.     *)

CleanupStart == RetentionTicks

CleanupCreated == {0, CleanupStart - 1}

CleanupTargets == {CleanupStart, CleanupStart + 1}

InitCleanup ==
    \E u \in UserIds, c \in CleanupCreated, t \in CleanupTargets, p \in TwinPatterns :
        /\ now = CleanupStart
        /\ reminders = <<[Row(u, "Pay bills", t, p) EXCEPT !.created_at = c]>>
        /\ nextId = 2
        /\ jobs = {[id |-> CleanupJobId,
                    trigger |-> IntervalTrigger(CleanupPeriod, CleanupPeriod),
                    next_run_time |-> CleanupStart],
                   Job(1, TriggerFor(p, t), c)}
        /\ running = EmptyBag
        /\ cancelling = {}
        /\ result = Returned("create", FALSE)
        /\ hist = [id \in Ids |-> NoHist]
        /\ NothingParsed

CleanupTick == now < CleanupStart + CleanupSpan /\ ClockStep

NextCleanup ==
    \/ \E j \in jobs : ProcessJob(j)
    \/ \E j \in jobs : ProcessCleanupJob(j)
    \/ \E i \in BagToSet(running) : ExecSelect(i)
    \/ \E i \in BagToSet(running), o \in SendOutcomes : ExecSend(i, o)
    \/ \E i \in BagToSet(running) : ExecComplete(i)
    \/ \E id \in DOMAIN reminders : CancelUpdate(id)
    \/ \E c \in cancelling : CancelRemoveJob(c)
    \/ CleanupTick

SpecCleanup == InitCleanup /\ [][NextCleanup]_vars

---------------------------------------------------------------------------
(* SchedulerManager.get_user_reminders: the rows of the owner with         *)
(* is_active = 1 in the order of their reminder_time, each with the status *)
(* of its job.  Rows with equal reminder_time come in any order.           *)

\* a status that does not look at the job store
JobStatus_Stored(id) ==
    IF reminders[id].is_active /\ ~reminders[id].is_completed
    THEN "scheduled" ELSE "not_scheduled"

\* job = self.scheduler.get_job(job_id): 'scheduled' if job else 'not_scheduled'
JobStatus(id) == IF JobsOf(id) # {} THEN "scheduled" ELSE "not_scheduled"

\* dict(row) with job_status and, when there is a job, next_run_time
Listed(id) ==
    [id |-> id, user_id |-> reminders[id].user_id,
     reminder_time |-> reminders[id].reminder_time,
     job_status |-> JobStatus(id),
     next_run_time |-> {j.next_run_time : j \in JobsOf(id)}]

\* ORDER BY reminder_time ASC over the ids in S
OrderedByTime(S) ==
    {q \in [1..Cardinality(S) -> S] :
        /\ \A a, b \in DOMAIN q : a # b => q[a] # q[b]
        /\ \A a, b \in DOMAIN q :
              a < b => reminders[q[a]].reminder_time <= reminders[q[b]].reminder_time}

\* what a listing returns: a list
ListReturn(listing) == [NoResult EXCEPT !.op = "list", !.listing = listing]

GetUserReminders(user_id) ==
    /\ \E q \in OrderedByTime(SchedulerUserReminders(user_id)) :
          result' = ListReturn([a \in DOMAIN q |-> Listed(q[a])])
    /\ UNCHANGED <<now, reminders, nextId, jobs, running, cancelling, hist>>
    /\ UNCHANGED rvars

---------------------------------------------------------------------------
(* The same three operations when a collaborator fails.  While the         *)
(* database cannot be opened get_connection raises                         *)
(* sqlite3.OperationalError, and each handler's "except Exception" takes   *)
(* over; the same clause of create_reminder catches a failure of the       *)
(* scheduler library.                                                      *)

StoreError == "unable to open database file"

\* create_reminder: the validation passes or fails as always, then
\* self.db.create_reminder raises before add_job is reached
CreateReminderStoreDown(user_id, title, description, reminder_time_str, repeat_pattern) ==
    /\ result' =
          IF MissingFields(user_id, title, reminder_time_str)
          THEN Failed("create", "Missing required fields")
          ELSE IF FromIsoFormat(reminder_time_str) = {}
          THEN Failed("create", "Invalid datetime format")
          ELSE Failed("create", StoreError)
    /\ UNCHANGED <<now, reminders, nextId, jobs, running, cancelling, hist>>
    /\ UNCHANGED rvars

\* cancel_reminder: the UPDATE raises, remove_job is not reached
CancelStoreDown(id) ==
    /\ result' = Failed("cancel", StoreError)
    /\ UNCHANGED <<now, reminders, nextId, jobs, running, cancelling, hist>>
    /\ UNCHANGED rvars

\* get_user_reminders: the exception is logged and [] is returned
GetUserRemindersStoreDown(user_id) ==
    /\ result' = ListReturn(<<>>)
    /\ UNCHANGED <<now, reminders, nextId, jobs, running, cancelling, hist>>
    /\ UNCHANGED rvars

\* create_reminder when building the trigger or add_job raises: the row
\* has been inserted and committed by then, and the except clause returns
\* the error
CreateReminderJobFails(user_id, title, description, reminder_time_str, repeat_pattern) ==
    /\ ~MissingFields(user_id, title, reminder_time_str)
    /\ FromIsoFormat(reminder_time_str) # {}
    /\ LET reminder_time == CHOOSE t \in FromIsoFormat(reminder_time_str) : TRUE
           owner == CHOOSE u \in user_id : TRUE
           row == [Row(owner, title, reminder_time, repeat_pattern)
                       EXCEPT !.description = description]
       IN  /\ reminders' = DbCreateReminder(reminders, nextId, row)
           /\ nextId' = nextId + 1
           /\ result' = Failed("create", "add_job failed")
    /\ UNCHANGED <<now, jobs, running, cancelling, hist>>
    /\ UNCHANGED rvars

---------------------------------------------------------------------------
(* The callers' side with two reminders: up to two create_reminder calls   *)
(* with valid input, cancel_reminder and get_user_reminders calls, the     *)
(* same calls while the database is unavailable, the scheduler and the     *)
(* worker threads; every send goes through.  The runs end before the       *)
(* cleanup job is first due.                                               *)

StoreTimes == {IsoString("T", t) : t \in CreateTimes}

StoreTick == now < StoreTime /\ ClockStep

NextStore ==
    \/ \E u \in UserIds, ti \in Titles, d \in Descriptions, t \in StoreTimes,
          p \in TwinPatterns :
            nextId \in Ids /\ CreateReminderCall({u}, ti, d, t, p)
    \/ \E j \in jobs : ProcessJob(j)
    \/ \E i \in BagToSet(running) : ExecSelect(i)
    \/ \E i \in BagToSet(running) : ExecSend(i, "ok")
    \/ \E i \in BagToSet(running) : ExecComplete(i)
    \/ \E id \in DOMAIN reminders : CancelUpdate(id)
    \/ \E c \in cancelling : CancelRemoveJob(c)
    \/ \E u \in UserIds : GetUserReminders(u)
    \/ \E u \in UserArgs, ti \in Titles, d \in Descriptions :
            CreateReminderStoreDown(u, ti, d, IsoFormat(now), <<>>)
    \/ \E u \in UserIds, ti \in Titles, d \in Descriptions, t \in StoreTimes,
          p \in TwinPatterns :
            nextId \in Ids /\ CreateReminderJobFails({u}, ti, d, t, p)
    \/ \E id \in DOMAIN reminders : CancelStoreDown(id)
    \/ \E u \in UserIds : GetUserRemindersStoreDown(u)
    \/ StoreTick

SpecStore == Init /\ [][NextStore]_vars

---------------------------------------------------------------------------
(* Properties *)

Live(r) == reminders[r].is_active /\ ~reminders[r].is_completed

OneShot(r) == ~Truthy(reminders[r].repeat_pattern)

\* the repeat patterns the engine recognises: daily, weekly, monthly, every N unit
Recurring(r) ==
    \/ reminders[r].repeat_pattern \in {<<"daily">>, <<"weekly">>, <<"monthly">>}
    \/ /\ Len(reminders[r].repeat_pattern) = 3
       /\ reminders[r].repeat_pattern[1] = "every"
       /\ reminders[r].repeat_pattern[2] \in DOMAIN Numerals
       /\ reminders[r].repeat_pattern[3] \in
              {"minute", "minutes", "hour", "hours", "day", "days"}

\* no operation is half-way
Quiescent == running = EmptyBag /\ cancelling = {}

BeingCancelled(id) == \E c \in cancelling : c.id = id

\* every reminder that is active and not completed has exactly one timer,
\* every other reminder has none
AllLiveRegistered ==
    \A r \in DOMAIN reminders :
        /\ Live(r) => Cardinality(JobsOf(r)) = 1
        /\ ~Live(r) => JobsOf(r) = {}

\* C1: once the scheduler has been started again after a restart, every stored
\* reminder that is active and not completed has exactly one timer, and the
\* cancelled and completed ones have none.
C1_ReloadedAfterRestart == [][Restart => AllLiveRegistered']_vars

\* C2: whenever no operation is half-way, each reminder that is active and not
\* completed has exactly one registered timer job.
C2_OneTimerPerLiveReminder ==
    Quiescent =>
        \A r \in DOMAIN reminders : Live(r) => Cardinality(JobsOf(r)) = 1

\* C3: cancel_reminder of an id that is not stored returns success = false
\* with error not_found.
C3_CancelUnknownIsNotFound ==
    (result.op = "cancel" /\ ~result.existed) =>
        (~result.success /\ result.error = "not_found")

C5_OneShotFiresOnceAndCompletes ==
    \A id \in DOMAIN reminders :
        OneShot(id) =>
            /\ hist[id].fired <= 1
            /\ hist[id].dispatched <= 1
            /\ (hist[id].fired = 1 /\ InstancesOf(id) = {} /\ reminders[id].is_active)
                  => /\ hist[id].dispatched = 1
                     /\ reminders[id].is_completed
                     /\ JobsOf(id) = {}
            /\ reminders[id].is_completed => hist[id].dispatched = 1

C5_Witness ==
    \E id \in DOMAIN reminders :
        /\ OneShot(id)
        /\ hist[id].fired = 1
        /\ hist[id].dispatched = 1
        /\ InstancesOf(id) = {}
        /\ reminders[id].is_active
        /\ reminders[id].is_completed

\* C6: a completed reminder without a repeat pattern is in neither the due
\* reminders nor the listings of its owner (SchedulerManager.get_user_reminders,
\* DatabaseManager.get_user_reminders with active_only).
C6_CompletedIsNotListed ==
    \A id \in DOMAIN reminders :
        (OneShot(id) /\ reminders[id].is_completed) =>
            /\ id \notin GetPendingReminders
            /\ id \notin SchedulerUserReminders(reminders[id].user_id)
            /\ id \notin DbUserReminders(reminders[id].user_id, TRUE)

\* C7: a daily, weekly, monthly or every-N-unit reminder is never completed,
\* and as long as no cancel_reminder call has been made for its id it has its
\* one recurring timer.
C7_RecurringNeverCompleted ==
    \A id \in DOMAIN reminders :
        Recurring(id) =>
            /\ ~reminders[id].is_completed
            /\ (hist[id].cancel = "no" /\ ~BeingCancelled(id)) =>
                  /\ reminders[id].is_active
                  /\ Cardinality(JobsOf(id)) = 1
                  /\ \A j \in JobsOf(id) : j.trigger.kind # "date"

C7_Witness ==
    \E id \in DOMAIN reminders :
        /\ Recurring(id)
        /\ hist[id].dispatched >= 2
        /\ InstancesOf(id) = {}
        /\ hist[id].cancel = "no"
        /\ JobsOf(id) # {}

\* C8: for a reminder without a repeat pattern the platform API is called at
\* most once; when that call failed and the execution has ended, the reminder
\* is completed and has no timer.
C8_AtMostOneSend ==
    \A id \in DOMAIN reminders :
        OneShot(id) =>
            /\ hist[id].sends <= 1
            /\ (hist[id].failed /\ InstancesOf(id) = {}) =>
                  /\ reminders[id].is_completed
                  /\ JobsOf(id) = {}

C8_Witness ==
    \E id \in DOMAIN reminders :
        /\ OneShot(id)
        /\ hist[id].failed
        /\ hist[id].sends = 1
        /\ InstancesOf(id) = {}
        /\ reminders[id].is_completed

\* the next statement of some running execution of reminder b
StepOf(b) ==
    \E i \in InstancesOf(b) :
        \/ ExecSelect(i)
        \/ \E o \in SendOutcomes : ExecSend(i, o)
        \/ ExecComplete(i)

\* C9: whatever happens to the send of the other reminder, a running
\* execution of reminder b can always take its next step, and once none is
\* running every execution of b has called the dispatcher and b, if it has no
\* repeat pattern, is completed.
C9_DispatchesAreIndependent ==
    \A b \in PairIds :
        /\ InstancesOf(b) # {} => ENABLED StepOf(b)
        /\ InstancesOf(b) = {} =>
              /\ hist[b].dispatched = hist[b].fired
              /\ (OneShot(b) /\ hist[b].fired = 1) => reminders[b].is_completed

\* the send of one reminder failed while the other was still being
\* dispatched, and the other was sent and completed
C9_Witness ==
    \E a \in PairIds, b \in PairIds :
        /\ a # b
        /\ hist[a].failed /\ hist[a].sends = 1 /\ hist[b].sends = 1
        /\ ~hist[b].failed
        /\ OneShot(b) /\ reminders[b].is_completed
        /\ InstancesOf(a) # {}

C11_InvalidCreateChangesNothing ==
    [][\A u \in UserArgs, ti \in TitleArgs, d \in Descriptions, t \in TimeArgs,
         p \in TwinPatterns :
          (/\ CreateReminderCall(u, ti, d, t, p)
           /\ (u = {} \/ ti = "" \/ t.kind = "none" \/ t.kind = "text"))
              => /\ result'.op = "create"
                 /\ ~result'.success
                 /\ result'.error # "-"
                 /\ reminders' = reminders
                 /\ jobs' = jobs
                 /\ nextId' = nextId]_vars

\* a create_reminder call has been refused while a reminder was stored and
\* had its timer
C11_Witness ==
    /\ result.op = "create"
    /\ ~result.success
    /\ result.error = "Invalid datetime format"
    /\ 1 \in DOMAIN reminders
    /\ JobsOf(1) # {}

SameContent(a, b) ==
    [a EXCEPT !.created_at = 0, !.is_active = TRUE, !.is_completed = FALSE]
        = [b EXCEPT !.created_at = 0, !.is_active = TRUE, !.is_completed = FALSE]

Twins(q, r) ==
    /\ q \in DOMAIN reminders /\ r \in DOMAIN reminders /\ q # r
    /\ SameContent(reminders[q], reminders[r])

\* C13: a create_reminder call whose content is already stored succeeds with
\* an id that no stored reminder has, adds a row and a timer of its own and
\* leaves the rows and timers of the others alone; and each of two stored
\* reminders with the same content has fired once its target time, not yet
\* past when it was created, has gone by.
C13_NoDeduplication ==
    /\ [](\A q \in DOMAIN reminders, r \in DOMAIN reminders :
            (/\ Twins(q, r)
             /\ reminders[r].created_at <= reminders[r].reminder_time
             /\ reminders[r].reminder_time < now)
                => hist[r].fired >= 1)
    /\ [][\A u \in UserIds, ti \in Titles, d \in Descriptions, sep \in {"T", " "},
           t \in 0..MaxTime, p \in TwinPatterns, r \in {nextId} :
            (/\ CreateReminderCall({u}, ti, d, IsoString(sep, t), p)
             /\ \E q \in DOMAIN reminders :
                    SameContent(reminders[q],
                                [Row(u, ti, t, p) EXCEPT !.description = d]))
                => /\ result'.success
                   /\ result'.reminder_id = {r}
                   /\ r \notin DOMAIN reminders
                   /\ DOMAIN reminders' = DOMAIN reminders \cup {r}
                   /\ Cardinality(JobsOf(r)') = 1
                   /\ \A q \in DOMAIN reminders :
                         /\ reminders'[q] = reminders[q]
                         /\ \A qq \in {q} : JobsOf(qq)' = JobsOf(qq)]_vars

\* two reminders with the same content are stored and both have fired
C13_Witness ==
    \E q \in DOMAIN reminders, r \in DOMAIN reminders :
        /\ Twins(q, r)
        /\ hist[q].fired >= 1
        /\ hist[r].fired >= 1
        /\ hist[q].dispatched >= 1
        /\ hist[r].dispatched >= 1

\* the scheduler and the workers have nothing left to do for reminder id
Settled(id) ==
    /\ JobsOf(id) \cap DueJobs = {}
    /\ InstancesOf(id) = {}

\* C14: create_reminder accepts a target time that is already past and
\* returns it as scheduled_time, and such a reminder is fired by the
\* scheduler straight away: once the scheduler and the workers have nothing
\* left to do for it, a reminder without a repeat pattern has been dispatched
\* once and is completed.
C14_PastTimeFiresAtOnce ==
    /\ (result.op = "create" /\ result.success) =>
          \A r \in result.reminder_id :
              r \in DOMAIN reminders =>
                  FromIsoFormat(result.scheduled_time) = {reminders[r].reminder_time}
    /\ \A id \in DOMAIN reminders :
          (/\ reminders[id].reminder_time < reminders[id].created_at
           /\ OneShot(id)
           /\ hist[id].cancel = "no" /\ ~BeingCancelled(id)
           /\ Settled(id))
              => /\ hist[id].dispatched = 1
                 /\ reminders[id].is_completed

Unrecognised(id) == reminders[id].repeat_pattern \in UnknownPatterns

\* C15: create_reminder with a repeat pattern that is not recognised succeeds
\* and stores the reminder with a one-shot timer at its target time; the
\* reminder fires at most once and only at its target time, and when the
\* target time was not past at creation and nobody cancelled, it has fired
\* once the target time has gone by and has been dispatched when the worker
\* is done.
C15_UnknownPatternFiresOnce ==
    /\ [](\A id \in DOMAIN reminders :
            Unrecognised(id) =>
                /\ \A j \in JobsOf(id) : j.trigger = DateTrigger(reminders[id].reminder_time)
                /\ hist[id].fired <= 1
                /\ (/\ reminders[id].created_at <= reminders[id].reminder_time
                    /\ reminders[id].reminder_time < now
                    /\ hist[id].cancel = "no" /\ ~BeingCancelled(id))
                       => /\ hist[id].fired = 1
                          /\ InstancesOf(id) = {} => hist[id].dispatched = 1)
    /\ [][/\ \A id \in DOMAIN reminders :
              (Unrecognised(id) /\ hist'[id].fired # hist[id].fired)
                  => now = reminders[id].reminder_time
          /\ \A u \in UserIds, ti \in Titles, d \in Descriptions, sep \in {"T", " "},
                t \in 0..MaxTime, p \in UnknownPatterns, r \in {nextId} :
              CreateReminderCall({u}, ti, d, IsoString(sep, t), p)
                  => /\ result'.success
                     /\ r \in DOMAIN reminders'
                     /\ reminders'[r].repeat_pattern = p
                     /\ JobsOf(r)' = {[id |-> r, trigger |-> DateTrigger(t),
                                       next_run_time |-> t]}]_vars

\* a reminder with an unrecognised pattern has fired once, at its target
\* time, and has been dispatched
C15_Witness ==
    \E id \in DOMAIN reminders :
        /\ Unrecognised(id)
        /\ reminders[id].repeat_pattern = <<"every", "2", "weeks">>
        /\ hist[id].fired = 1
        /\ hist[id].dispatched = 1
        /\ InstancesOf(id) = {}
        /\ JobsOf(id) = {}
        /\ now > reminders[id].reminder_time

\* the moments from..upto that have the clock time HH:MM of moment anchor
Occurrences(anchor, from, upto) ==
    {t \in from..upto : HourOf(t) = HourOf(anchor) /\ MinuteOf(t) = MinuteOf(anchor)}

Min(a, b) == IF a <= b THEN a ELSE b

\* the last moment whose due jobs of reminder id have been handed over
HandledUpTo(id) == IF JobsOf(id) \cap DueJobs # {} THEN now - 1 ELSE now

\* C16: a daily reminder has fired exactly at the moments that have the
\* clock time of its target time and are neither before the target time nor
\* before its creation, the first of them first and one every day after it,
\* and it keeps its timer; it is never run at a moment with another clock
\* time.
C16_DailyFiresAtItsClockTime ==
    /\ [](\A id \in DOMAIN reminders :
            reminders[id].repeat_pattern = <<"daily">> =>
                /\ Cardinality(JobsOf(id)) = 1
                /\ hist[id].fired =
                      Min(CountCap,
                          Cardinality(Occurrences(
                              reminders[id].reminder_time,
                              Max(reminders[id].reminder_time, reminders[id].created_at),
                              HandledUpTo(id)))))
    /\ [][\A j \in jobs :
            (/\ ProcessJob(j)
             /\ j.id \in DOMAIN reminders
             /\ reminders[j.id].repeat_pattern = <<"daily">>
             /\ running' # running)
                => /\ now \in Occurrences(reminders[j.id].reminder_time, now, now)
                   /\ now >= reminders[j.id].reminder_time
                   /\ now >= reminders[j.id].created_at
                   /\ \A jj \in {j} : \A n \in JobsOf(jj.id)' :
                          n.next_run_time = now + DayTicks]_vars

\* a daily reminder created after its clock time had passed that day has
\* fired on the next day and on the day after that
C16_Witness ==
    \E id \in DOMAIN reminders :
        /\ reminders[id].repeat_pattern = <<"daily">>
        /\ reminders[id].reminder_time < reminders[id].created_at
        /\ DayIndex(reminders[id].reminder_time) = DayIndex(reminders[id].created_at)
        /\ hist[id].fired = 2
        /\ now = reminders[id].reminder_time + 2 * DayTicks

\* the hour of the day that a 12-hour clock time names
HourOfDay(e) ==
    IF e.ampm = "pm" THEN (IF e.hour = 12 THEN 12 ELSE e.hour + 12)
    ELSE IF e.ampm = "am" THEN (IF e.hour = 12 THEN 0 ELSE e.hour)
    ELSE e.hour

\* the clock time of expression e on the day of moment clk
SameDayAt(e, clk) ==
    [min |-> (clk.min \div 1440) * 1440 + HourOfDay(e) * 60 + e.minute, frac |-> FALSE]

\* today at that time when it is still ahead, one day later otherwise
TodayOrTomorrow(e, clk) ==
    IF Before(clk, SameDayAt(e, clk))
    THEN SameDayAt(e, clk)
    ELSE Plus(SameDayAt(e, clk), 1440)

BareClockTime(e) ==
    /\ ~e.blank /\ e.qualifier = "-" /\ e.date = {} /\ e.unit = "-"
    /\ e.clock = "h:mm" /\ e.ampm \in {"am", "pm"}

\* C17: _parse_time_expression maps a clock time 'HH:MM am|pm' without a
\* day word to today at that time when that moment is after now and to one
\* day later otherwise; the result is after now and at most 24 hours ahead.
C17_BareClockTimeRollsForward ==
    (parsed.by = "assistant" /\ BareClockTime(time_text)) =>
        /\ parsed.value = {TodayOrTomorrow(time_text, clock)}
        /\ \A v \in parsed.value :
              /\ Before(clock, v)
              /\ ~Before(Plus(clock, 1440), v)

\* '2:30pm' read at 15:00 gives 14:30 of the next day, and a clock time
\* equal to now gives the same time of the next day
C17_Witness ==
    /\ parsed.by = "assistant"
    /\ time_text = ClockText("-", 2, 30, "pm")
    /\ clock = Moment(1, 15, 0, FALSE)
    /\ parsed.value = {Moment(2, 14, 30, FALSE)}

TodayClockTime(e) ==
    /\ ~e.blank /\ e.qualifier = "today" /\ e.date = {} /\ e.unit = "-"
    /\ e.clock = "h:mm" /\ e.ampm \in {"am", "pm"}

\* C18: both parsers map 'today at HH:MM am|pm' by the rule of a bare clock
\* time, today at that time when it is still ahead and one day later when
\* it has passed, so that the result is never before now.
C18_TodayAtRollsForward ==
    (parsed.by \in {"assistant", "chat"} /\ TodayClockTime(time_text)) =>
        /\ parsed.value = {TodayOrTomorrow(time_text, clock)}
        /\ \A v \in parsed.value : ~Before(v, clock)

\* C19: for a text that matches none of the supported forms
\* _parse_time_expression returns no time; it substitutes no default.
C19_UnparsableGivesNoTime ==
    (parsed.by = "assistant" /\ time_text = Gibberish) => parsed.value = {}

ExplicitDate(e) == ~e.blank /\ e.date # {} /\ e.clock = "h:mm" /\ e.ampm = "-"

\* C20: both parsers map 'YYYY-MM-DD HH:MM' to exactly that date and time,
\* whatever the clock reads and also when that moment has passed.
C20_ExplicitDateIsLiteral ==
    (parsed.by \in {"assistant", "chat"} /\ ExplicitDate(time_text)) =>
        parsed.value = {Moment(d, time_text.hour, time_text.minute, FALSE) : d \in time_text.date}

C22_StoreDownFailsExplicitly ==
    [][/\ \A u \in UserArgs, ti \in Titles, d \in Descriptions :
              CreateReminderStoreDown(u, ti, d, IsoFormat(now), <<>>) =>
                /\ result'.op = "create" /\ ~result'.success /\ result'.error # "-"
                /\ reminders' = reminders /\ jobs' = jobs
       /\ \A id \in DOMAIN reminders :
              CancelStoreDown(id) =>
                /\ result'.op = "cancel" /\ ~result'.success /\ result'.error # "-"
                /\ reminders' = reminders /\ jobs' = jobs
       /\ \A u \in UserIds :
              GetUserRemindersStoreDown(u) => result' # ListReturn(<<>>)]_vars

\* the rows a step deletes
Deleted(before, after) == DOMAIN before \ DOMAIN after

\* C23: the cleanup deletes a reminder only if it is completed and
\* RetentionDays days have passed since it was completed; a reminder that is
\* not completed, or was completed less than RetentionDays days ago, is kept.
C23_CleanupAfterRetention ==
    [][\A r \in Deleted(reminders, reminders') :
          /\ reminders[r].is_completed
          /\ \E t \in hist[r].completed_at : t + RetentionTicks <= now]_vars

\* C24: at any time at most one execution of a reminder's job is running:
\* when a run overruns into the next occurrence, no second dispatch of the
\* reminder runs along with it.
C24_NoConcurrentExecutions ==
    \A id \in DOMAIN reminders : InstanceCount(id) <= 1

TwelveHourTime(e) ==
    /\ ~e.blank /\ e.date = {} /\ e.unit = "-" /\ e.clock = "h:mm"
    /\ e.ampm \in {"am", "pm"} /\ e.hour \in 1..12

\* C25: to_datetime converts a 12-hour clock time with am or pm, with or
\* without a day word, to the time of day it denotes: H pm with H < 12 to
\* hour H + 12, 12 pm to hour 12, 12 am to hour 0, H am with H < 12 to hour H.
C25_ChatTwelveHourClock ==
    (parsed.by = "chat" /\ TwelveHourTime(time_text)) =>
        /\ parsed.value # {}
        /\ \A v \in parsed.value :
              v.min % 1440 = HourOfDay(time_text) * 60 + time_text.minute

\* C26: create_reminder is all-or-nothing: when it returns success = false
\* the table holds no new row and the job store no new job, and when it
\* returns success = true the row and its job both exist.
C26_CreateAllOrNothing ==
    [][\A u \in UserArgs, ti \in Titles, d \in Descriptions, t \in StoreTimes,
         p \in TwinPatterns, r \in {nextId} :
          (\/ CreateReminderCall(u, ti, d, t, p)
           \/ CreateReminderJobFails(u, ti, d, t, p)
           \/ CreateReminderStoreDown(u, ti, d, t, p))
              => /\ result'.op = "create"
                 /\ result'.success =>
                        (r \in DOMAIN reminders' /\ \E j \in jobs' : j.id = r)
                 /\ ~result'.success =>
                        (reminders' = reminders /\ jobs' = jobs)]_vars

\* C27: every execution of an active reminder calls the platform API once,
\* before the reminder is marked completed; a reminder is never completed
\* by an execution that attempted no send.
C27_CompletedOnlyAfterSend ==
    \A id \in DOMAIN reminders :
        /\ InstancesOf(id) = {} => hist[id].sends = hist[id].dispatched
        /\ reminders[id].is_completed => hist[id].sends >= 1

\* the jobs of reminders: every job but the cleanup job
ReminderJobs == {j \in jobs : j.id # CleanupJobId}

C29_FlagsAreMonotonic ==
    /\ [](\A id \in DOMAIN reminders :
            /\ CompleteReminder(CompleteReminder(reminders, id), id)
                  = CompleteReminder(reminders, id)
            /\ Deactivate(Deactivate(reminders, id), id) = Deactivate(reminders, id))
    /\ [][\A r \in DOMAIN reminders \cap DOMAIN reminders' :
            /\ ~reminders[r].is_active => ~reminders'[r].is_active
            /\ reminders[r].is_completed => reminders'[r].is_completed]_vars

\* a reminder that is completed and whose cancel has returned is being
\* cancelled a second time, the UPDATE done
C29_Witness ==
    \E id \in DOMAIN reminders :
        /\ Cancelled(id) /\ BeingCancelled(id)
        /\ reminders[id].is_completed
        /\ ~reminders[id].is_active

\* the jobs of every reminder but id are the same in both job stores
SameJobsButOf(id, before, after) ==
    {j \in before : j.id # id} = {j \in after : j.id # id}

\* the rows of every reminder but id are the same in both tables
SameRowsButOf(id, before, after) ==
    /\ DOMAIN before = DOMAIN after
    /\ \A r \in DOMAIN before : r # id => after[r] = before[r]

\* C30: cancel_reminder(id) and an execution of reminder id leave the row
\* and the job of every other reminder as they were; of the row of id the
\* cancel changes is_active only, and the execution changes is_completed
\* only, and only for a reminder without a repeat pattern.
C30_OnlyThatReminderChanges ==
    [][/\ \A id \in DOMAIN reminders :
            CancelUpdate(id) =>
              /\ SameRowsButOf(id, reminders, reminders')
              /\ reminders'[id] = [reminders[id] EXCEPT !.is_active = FALSE]
              /\ jobs' = jobs
       /\ \A c \in cancelling :
            CancelRemoveJob(c) =>
              /\ reminders' = reminders
              /\ SameJobsButOf(c.id, jobs, jobs')
       /\ \A j \in ReminderJobs :
            ProcessJob(j) =>
              /\ reminders' = reminders
              /\ SameJobsButOf(j.id, jobs, jobs')
       /\ \A i \in BagToSet(running) :
            (ExecSelect(i) \/ ExecSend(i, "ok")) =>
              /\ reminders' = reminders
              /\ jobs' = jobs
       /\ \A i \in BagToSet(running) :
            (ExecComplete(i) /\ i.rid \in DOMAIN reminders) =>
              /\ ~Truthy(reminders[i.rid].repeat_pattern)
              /\ SameRowsButOf(i.rid, reminders, reminders')
              /\ reminders'[i.rid] = [reminders[i.rid] EXCEPT !.is_completed = TRUE]
              /\ SameJobsButOf(i.rid, jobs, jobs')]_vars

\* reminder 1 has been dispatched and cancelled while reminder 2 is active
\* and has its timer
C30_Witness ==
    /\ DOMAIN reminders = {1, 2}
    /\ Cancelled(1) /\ ~reminders[1].is_active /\ hist[1].dispatched >= 1
    /\ reminders[2].is_active /\ ~reminders[2].is_completed
    /\ JobsOf(2) # {}
    /\ Quiescent

====
